---- MODULE Spec2Model ----
(***************************************************************************)
(* A model of csv_processor.py: the condition parsers, the typed           *)
(* comparison used by CSVProcessor.filter_data, CSVProcessor.aggregate_data *)
(* and the pipeline of main().                                             *)
(*                                                                         *)
(* A Python str is modelled as a sequence of one-character strings, so     *)
(* that substring search, split, strip, float() and the code-point order   *)
(* of str comparison are computed and not assumed.  Python's None is the   *)
(* value NoneVal.                                                          *)
(***************************************************************************)
EXTENDS Integers, Sequences, FiniteSets, TLC

\* Largest number of data records of an input file.
MaxRows == 2
\* Largest number of tokens a condition text of the parser calls is made of.
MaxTokens == 4

---------------------------------------------------------------------------
(* Python values *)

\* Python's None.  "None" is not a character, so NoneVal differs from
\* every text.
NoneVal == <<"None">>

Digits == {"0", "1", "2", "3", "4", "5", "6", "7", "8", "9"}

\* The characters the inputs are written in.  The alphabet has no "e", "f",
\* "t", "y", "_" and no upper case, so that over it float() accepts exactly
\* the signed decimals and the signed "nan" (no exponent, no "inf").
Chars ==
    {" ", "+", "-", ".", "<", "=", ">"} \cup Digits
        \cup {"a", "b", "c", "g", "i", "m", "n", "p", "q", "v", "x"}

\* The value of a decimal digit.
DigitVal(c) ==
    CASE c = "0" -> 0 [] c = "1" -> 1 [] c = "2" -> 2 [] c = "3" -> 3
      [] c = "4" -> 4 [] c = "5" -> 5 [] c = "6" -> 6 [] c = "7" -> 7
      [] c = "8" -> 8 [] c = "9" -> 9

\* The Unicode code point of a character of Chars (Python's ord).
Ord(c) ==
    CASE c = " " -> 32 [] c = "+" -> 43 [] c = "-" -> 45 [] c = "." -> 46
      [] c \in Digits -> 48 + DigitVal(c)
      [] c = "<" -> 60 [] c = "=" -> 61 [] c = ">" -> 62
      [] c = "a" -> 97 [] c = "b" -> 98 [] c = "c" -> 99 [] c = "g" -> 103
      [] c = "i" -> 105 [] c = "m" -> 109 [] c = "n" -> 110
      [] c = "p" -> 112 [] c = "q" -> 113 [] c = "v" -> 118
      [] c = "x" -> 120

\* s[i..j] as a sequence (empty when j < i).
Slice(s, i, j) == [k \in 1..(j - i + 1) |-> s[i + k - 1]]

\* str.__lt__: a < b in the code-point lexicographic order of Python.
RECURSIVE StrLess(_, _)
StrLess(a, b) ==
    IF b = <<>> THEN FALSE
    ELSE IF a = <<>> THEN TRUE
    ELSE IF a[1] # b[1] THEN Ord(a[1]) < Ord(b[1])
    ELSE StrLess(Tail(a), Tail(b))

\* The least and the greatest element of a non-empty set of integers.
MinOf(S) == CHOOSE i \in S : \A j \in S : i <= j
MaxOf(S) == CHOOSE i \in S : \A j \in S : j <= i

\* s cut to the span of the positions `keep`.
Span(s, keep) == IF keep = {} THEN <<>> ELSE Slice(s, MinOf(keep), MaxOf(keep))

\* str.strip(): leading and trailing whitespace removed.
Strip(s) == Span(s, {i \in 1..Len(s) : s[i] # " "})

\* The positions at which op occurs in s as a substring.
Occurrences(op, s) ==
    {i \in 1..(Len(s) - Len(op) + 1) : Slice(s, i, i + Len(op) - 1) = op}

\* `op in s` for strings.
Contains(op, s) == Occurrences(op, s) # {}

\* s cut in two around the occurrence of op at position i.
CutAt(s, op, i) == <<Slice(s, 1, i - 1), Slice(s, i + Len(op), Len(s))>>

\* s.split(op, 1) when op occurs in s: the text before the first occurrence
\* and the text after it.
Split1(s, op) == CutAt(s, op, MinOf(Occurrences(op, s)))

RECURSIVE Pow10(_)
Pow10(k) == IF k = 0 THEN 1 ELSE 10 * Pow10(k - 1)

\* The natural number a sequence of digits writes.
RECURSIVE DigitsVal(_)
DigitsVal(d) ==
    IF d = <<>> THEN 0
    ELSE 10 * DigitsVal(Slice(d, 1, Len(d) - 1)) + DigitVal(d[Len(d)])

\* The results of float(): exc is "TypeError" for None, "ValueError" for a
\* text that is no number, and "none" otherwise; then kind is "nan" or "fin",
\* and a finite value is the exact rational num / den (den a power of ten).
\* The texts of the inputs have few digits, so distinct decimals are
\* distinct doubles and the order of the rationals is that of the doubles.
\* The sign of a zero is not kept: -0.0 and 0.0 compare equal.
Nan == [exc |-> "none", kind |-> "nan", num |-> 0, den |-> 1]
Fin(n, d) == [exc |-> "none", kind |-> "fin", num |-> n, den |-> d]
NoFloat(e) == [exc |-> e, kind |-> "none", num |-> 0, den |-> 1]

\* A decimal without sign: digits with at most one point, one digit at least.
IsDecimal(body) ==
    /\ \E i \in 1..Len(body) : body[i] \in Digits
    /\ \A i \in 1..Len(body) : body[i] \in Digits \cup {"."}
    /\ Cardinality({i \in 1..Len(body) : body[i] = "."}) <= 1

\* The number of digits after the point.
FracDigits(body) ==
    Cardinality({i \in 1..Len(body) : \E j \in 1..(i - 1) : body[j] = "."})

\* float() of a text without surrounding whitespace and without its sign.
FloatOfBody(body, neg) ==
    IF body = <<"n", "a", "n">> THEN Nan
    ELSE IF IsDecimal(body)
    THEN Fin((IF neg THEN -1 ELSE 1) * DigitsVal(SelectSeq(body, LAMBDA c : c \in Digits)),
             Pow10(FracDigits(body)))
    ELSE NoFloat("ValueError")

HasSign(s) == s # <<>> /\ s[1] \in {"+", "-"}

\* float() of a text without surrounding whitespace.
FloatOfStripped(s) ==
    FloatOfBody(IF HasSign(s) THEN Tail(s) ELSE s, HasSign(s) /\ s[1] = "-")

\* float(v)
PyFloat(v) == IF v = NoneVal THEN NoFloat("TypeError") ELSE FloatOfStripped(Strip(v))

\* Comparison of two floats: every comparison with a NaN is false.
FloatLess(x, y) ==
    x.kind = "fin" /\ y.kind = "fin" /\ x.num * y.den < y.num * x.den
FloatEq(x, y) ==
    x.kind = "fin" /\ y.kind = "fin" /\ x.num * y.den = y.num * x.den

---------------------------------------------------------------------------
(* The condition parsers *)

OpGE == <<">", "=">>
OpLE == <<"<", "=">>
OpGT == <<">">>
OpLT == <<"<">>
OpEQ == <<"=">>

\* A variant of the list with the one-character operators first.
operators_short_first == <<OpGT, OpLT, OpEQ, OpGE, OpLE>>

\* The list `operators` of parse_filter_condition, in its order.
operators == <<OpGE, OpLE, OpGT, OpLT, OpEQ>>

Avg == <<"a", "v", "g">>
Min == <<"m", "i", "n">>
Max == <<"m", "a", "x">>

\* The result of a call: exc is "none" and ret the value returned, or exc is
\* the kind of the failure the call ended the process with and ret is <<>>.
Return(v) == [exc |-> "none", ret |-> v]
Raise(kind) == [exc |-> kind, ret |-> <<>>]

\* parse_filter_condition: the for loop from operator number k on.
RECURSIVE ParseFilterFrom(_, _)
\* The body of the loop once `op in condition` holds, parts being the split.
ParseFilterParts(condition, k, parts) ==
    IF Len(parts) = 2
    THEN Return(<<Strip(parts[1]), operators[k], Strip(parts[2])>>)
    ELSE ParseFilterFrom(condition, k + 1)

ParseFilterFrom(condition, k) ==
    IF k > Len(operators) THEN Raise("InvalidConditionFormat")
    ELSE IF Contains(operators[k], condition)
    THEN ParseFilterParts(condition, k, Split1(condition, operators[k]))
    ELSE ParseFilterFrom(condition, k + 1)

parse_filter_condition(condition) == ParseFilterFrom(condition, 1)

\* parse_aggregate_condition once '=' is known to occur, parts being the split.
ParseAggregateParts(parts) ==
    IF Len(parts) # 2 THEN Raise("InvalidConditionFormat")
    ELSE IF Strip(parts[2]) \notin {Avg, Min, Max} THEN Raise("UnknownOperation")
    ELSE Return(<<Strip(parts[1]), Strip(parts[2])>>)

parse_aggregate_condition(condition) ==
    IF ~Contains(OpEQ, condition) THEN Raise("InvalidConditionFormat")
    ELSE ParseAggregateParts(Split1(condition, OpEQ))

---------------------------------------------------------------------------
(* CSVProcessor *)

Range(s) == {s[i] : i \in 1..Len(s)}

\* One row of csv.DictReader: the cells of a record under the field names.  A
\* field the record has no cell for gets restval (None); the cells beyond the
\* field names are kept as a list under restkey (None).
DictRow(fieldnames, record) ==
    LET last(h) == CHOOSE i \in 1..Len(fieldnames) :
                       /\ fieldnames[i] = h
                       /\ \A j \in 1..Len(fieldnames) : fieldnames[j] = h => j <= i
        keys == Range(fieldnames)
                    \cup (IF Len(record) > Len(fieldnames) THEN {NoneVal} ELSE {})
    IN  [h \in keys |->
            IF h \notin Range(fieldnames)
            THEN Slice(record, Len(fieldnames) + 1, Len(record))
            ELSE IF last(h) <= Len(record) THEN record[last(h)] ELSE NoneVal]

\* The rows of the records that follow the field names: a record that is
\* empty (a blank line) gives no row.
DictRows(fieldnames, rest) == [i \in 1..Len(rest) |-> DictRow(fieldnames, rest[i])]

\* list(csv.DictReader(file)): the first record gives the field names, every
\* later record that is not empty gives a row.
DictReaderRows(records) ==
    IF records = <<>> THEN <<>>
    ELSE DictRows(records[1], SelectSeq(Tail(records), LAMBDA r : r # <<>>))

\* reader.fieldnames or []
DictReaderFieldnames(records) == IF records = <<>> THEN <<>> ELSE records[1]

\* CSVProcessor.load_data on a file that is missing, unreadable, or holds
\* the given records.
load_data(file) ==
    IF file.kind = "missing" THEN Raise("FileNotFound")
    ELSE IF file.kind = "unreadable" THEN Raise("IOError")
    ELSE Return([headers |-> DictReaderFieldnames(file.records),
                 data |-> DictReaderRows(file.records)])

\* A variant of the loop's body that compares the texts only.
FilterRowTry_texts_only(row_value, operator, value, x, y) ==
    IF x.exc = "TypeError" THEN "TypeError"
    ELSE IF \/ operator = OpEQ /\ row_value = value
            \/ operator = OpGT /\ StrLess(value, row_value)
            \/ operator = OpLT /\ StrLess(row_value, value)
         THEN "append" ELSE "skip"

\* The body of filter_data's loop for one row, the two float() calls being
\* x and y: "append", "skip", or "TypeError" when float() raises what the
\* except clause does not catch.
FilterRowTry(row_value, operator, value, x, y) ==
    IF x.exc = "TypeError" THEN "TypeError"
    ELSE IF x.exc = "none" /\ y.exc = "none"
    THEN IF \/ operator = OpGT /\ FloatLess(y, x)
            \/ operator = OpLT /\ FloatLess(x, y)
            \/ operator = OpEQ /\ FloatEq(x, y)
         THEN "append" ELSE "skip"
    ELSE IF \/ operator = OpEQ /\ row_value = value
            \/ operator = OpGT /\ StrLess(value, row_value)
            \/ operator = OpLT /\ StrLess(row_value, value)
         THEN "append" ELSE "skip"

FilterRow(row_value, operator, value) ==
    FilterRowTry(row_value, operator, value, PyFloat(row_value), PyFloat(value))

\* filter_data's loop from row i on, filtered_data being what is collected.
RECURSIVE FilterLoop(_, _, _, _, _, _)
\* A variant of the loop that puts a selected row in front of the others.
FilterAfter_prepend(data, column, operator, value, i, filtered_data, t) ==
    IF t = "TypeError" THEN Raise("TypeError")
    ELSE FilterLoop(data, column, operator, value, i + 1,
                    IF t = "append" THEN <<data[i]>> \o filtered_data
                    ELSE filtered_data)

\* The loop after row i, whose test gave t.
FilterAfter(data, column, operator, value, i, filtered_data, t) ==
    IF t = "TypeError" THEN Raise("TypeError")
    ELSE FilterLoop(data, column, operator, value, i + 1,
                    IF t = "append" THEN Append(filtered_data, data[i])
                    ELSE filtered_data)

FilterLoop(data, column, operator, value, i, filtered_data) ==
    IF i > Len(data) THEN Return(filtered_data)
    ELSE FilterAfter(data, column, operator, value, i, filtered_data,
                     FilterRow(data[i][column], operator, value))

filter_data(hdrs, rows, column, operator, value) ==
    IF column \notin Range(hdrs) THEN Raise("UnknownColumn")
    ELSE FilterLoop(rows, column, operator, value, 1, <<>>)

\* x + y on floats, as an exact rational (rounding is not modelled).
FloatAdd(x, y) ==
    IF x.kind = "nan" \/ y.kind = "nan" THEN Nan
    ELSE Fin(x.num * y.den + y.num * x.den, x.den * y.den)

\* sum(numeric_values)
RECURSIVE FloatSum(_)
FloatSum(xs) ==
    IF xs = <<>> THEN Fin(0, 1)
    ELSE FloatAdd(FloatSum(Slice(xs, 1, Len(xs) - 1)), xs[Len(xs)])

\* x / n for a count n > 0.
FloatDiv(x, n) == IF x.kind = "nan" THEN Nan ELSE [x EXCEPT !.den = x.den * n]

\* min(xs) and max(xs) of Python: the first item, replaced by each later
\* item that compares less (greater) than the one kept.
KeepLess(m, x) == IF FloatLess(x, m) THEN x ELSE m
KeepGreater(m, x) == IF FloatLess(m, x) THEN x ELSE m

RECURSIVE FloatMin(_)
FloatMin(xs) ==
    IF Len(xs) = 1 THEN xs[1]
    ELSE KeepLess(FloatMin(Slice(xs, 1, Len(xs) - 1)), xs[Len(xs)])

RECURSIVE FloatMax(_)
FloatMax(xs) ==
    IF Len(xs) = 1 THEN xs[1]
    ELSE KeepGreater(FloatMax(Slice(xs, 1, Len(xs) - 1)), xs[Len(xs)])

\* aggregate_data's first loop from row i on: the floats collected, or the
\* failure of the first cell float() rejects.
RECURSIVE NumericValues(_, _, _, _)
\* The loop after row i, x being float() of its cell.
NumericAfter(data, column, i, numeric_values, x) ==
    IF x.exc = "ValueError" THEN Raise("NonNumericColumn")
    ELSE IF x.exc = "TypeError" THEN Raise("TypeError")
    ELSE NumericValues(data, column, i + 1, Append(numeric_values, x))

NumericValues(data, column, i, numeric_values) ==
    IF i > Len(data) THEN Return(numeric_values)
    ELSE NumericAfter(data, column, i, numeric_values, PyFloat(data[i][column]))

\* A variant without the final else: an unknown operation gives the maximum.
AggregateValues_no_else(column, operation, nv) ==
    IF nv.exc # "none" THEN nv
    ELSE IF nv.ret = <<>> THEN Raise("EmptyColumn")
    ELSE IF operation = Avg
    THEN Return([operation |-> "Average", column |-> column,
                 value |-> FloatDiv(FloatSum(nv.ret), Len(nv.ret))])
    ELSE IF operation = Min
    THEN Return([operation |-> "Minimum", column |-> column,
                 value |-> FloatMin(nv.ret)])
    ELSE Return([operation |-> "Maximum", column |-> column,
                 value |-> FloatMax(nv.ret)])

\* aggregate_data after its first loop, nv being the loop's result.
AggregateValues(column, operation, nv) ==
    IF nv.exc # "none" THEN nv
    ELSE IF nv.ret = <<>> THEN Raise("EmptyColumn")
    ELSE IF operation = Avg
    THEN Return([operation |-> "Average", column |-> column,
                 value |-> FloatDiv(FloatSum(nv.ret), Len(nv.ret))])
    ELSE IF operation = Min
    THEN Return([operation |-> "Minimum", column |-> column,
                 value |-> FloatMin(nv.ret)])
    ELSE IF operation = Max
    THEN Return([operation |-> "Maximum", column |-> column,
                 value |-> FloatMax(nv.ret)])
    ELSE Raise("UnknownOperation")

aggregate_data(hdrs, rows, column, operation) ==
    IF column \notin Range(hdrs) THEN Raise("UnknownColumn")
    ELSE AggregateValues(column, operation, NumericValues(rows, column, 1, <<>>))

---------------------------------------------------------------------------
(* The program state and the steps of main() *)

VARIABLES
    pc,       \* the place in the program: "flags", "load", "parse", "filter",
              \* "show_filter", "aggregate", "show_aggregate", "exit"
    args,     \* the command line: file, where, aggregate (None when not given)
    headers,  \* CSVProcessor.headers
    data,     \* CSVProcessor.data
    cond,     \* the parsed condition, or the arguments of a direct call
    ret,      \* what filter_data or aggregate_data returned
    err,      \* "none", or the kind of the failure that ended the process
    out,      \* what was printed to standard output, one entry per print
    status,   \* "running", "exit0" or "exit1"
    steps     \* the steps executed so far, in order

vars == <<pc, args, headers, data, cond, ret, err, out, status, steps>>

\* Python's truth value of an optional string argument.
Truthy(a) == a # NoneVal /\ a # <<>>

\* A step ends the process with a failure: the message is printed and
\* sys.exit(1) is called.  A TypeError is raised and caught by nothing: the
\* interpreter prints the traceback to standard error and exits with 1.
Fail(step, kind) ==
    /\ pc' = "exit"
    /\ err' = kind
    /\ status' = "exit1"
    /\ out' = IF kind = "TypeError" THEN out ELSE Append(out, "error")
    /\ steps' = Append(steps, step)
    /\ UNCHANGED <<args, headers, data, cond, ret>>

\* A variant of the checks of the flags without the first one.
FlagCheck_no_conflict ==
    /\ pc = "flags"
    /\ IF ~Truthy(args.where) /\ ~Truthy(args.aggregate) THEN Fail("flags", "NoFlag")
       ELSE /\ pc' = "load"
            /\ steps' = Append(steps, "flags")
            /\ UNCHANGED <<args, headers, data, cond, ret, err, out, status>>

\* main: the two checks of the flags.
FlagCheck ==
    /\ pc = "flags"
    /\ IF Truthy(args.where) /\ Truthy(args.aggregate) THEN Fail("flags", "BothFlags")
       ELSE IF ~Truthy(args.where) /\ ~Truthy(args.aggregate)
       THEN Fail("flags", "NoFlag")
       ELSE /\ pc' = "load"
            /\ steps' = Append(steps, "flags")
            /\ UNCHANGED <<args, headers, data, cond, ret, err, out, status>>

\* processor.load_data()
LoadStep ==
    /\ pc = "load"
    /\ \E r \in {load_data(args.file)} :
           IF r.exc # "none" THEN Fail("load", r.exc)
           ELSE /\ headers' = r.ret.headers
                /\ data' = r.ret.data
                /\ pc' = "parse"
                /\ steps' = Append(steps, "load")
                /\ UNCHANGED <<args, cond, ret, err, out, status>>

\* column, operator, value = parse_filter_condition(condition)
DoParseFilter(condition) ==
    \E r \in {parse_filter_condition(condition)} :
        IF r.exc # "none" THEN Fail("parse_filter", r.exc)
        ELSE /\ cond' = r.ret
             /\ pc' = "filter"
             /\ steps' = Append(steps, "parse_filter")
             /\ UNCHANGED <<args, headers, data, ret, err, out, status>>

\* column, operation = parse_aggregate_condition(condition)
DoParseAggregate(condition) ==
    \E r \in {parse_aggregate_condition(condition)} :
        IF r.exc # "none" THEN Fail("parse_aggregate", r.exc)
        ELSE /\ cond' = r.ret
             /\ pc' = "aggregate"
             /\ steps' = Append(steps, "parse_aggregate")
             /\ UNCHANGED <<args, headers, data, ret, err, out, status>>

\* main: `if args.where:`
ParseFilterStep == pc = "parse" /\ Truthy(args.where) /\ DoParseFilter(args.where)

\* main: `elif args.aggregate:`
ParseAggregateStep ==
    /\ pc = "parse"
    /\ ~Truthy(args.where)
    /\ Truthy(args.aggregate)
    /\ DoParseAggregate(args.aggregate)

\* filtered_data = processor.filter_data(column, operator, value)
FilterStep ==
    /\ pc = "filter"
    /\ \E r \in {filter_data(headers, data, cond[1], cond[2], cond[3])} :
           IF r.exc # "none" THEN Fail("filter", r.exc)
           ELSE /\ ret' = r.ret
                /\ pc' = "show_filter"
                /\ steps' = Append(steps, "filter")
                /\ UNCHANGED <<args, headers, data, cond, err, out, status>>

\* result = processor.aggregate_data(column, operation)
AggregateStep ==
    /\ pc = "aggregate"
    /\ \E r \in {aggregate_data(headers, data, cond[1], cond[2])} :
           IF r.exc # "none" THEN Fail("aggregate", r.exc)
           ELSE /\ ret' = r.ret
                /\ pc' = "show_aggregate"
                /\ steps' = Append(steps, "aggregate")
                /\ UNCHANGED <<args, headers, data, cond, err, out, status>>

\* display_table: what it prints for the rows given.
display_table(rows) == IF rows = <<>> THEN <<"no_data">> ELSE <<"table">>

\* main: the echo of the condition, the count, an empty line and the table;
\* main returns and the process ends with status 0.
ShowFilter ==
    /\ pc = "show_filter"
    /\ out' = out \o <<"echo", "count", "blank">> \o display_table(ret)
    /\ pc' = "exit"
    /\ status' = "exit0"
    /\ steps' = Append(steps, "present")
    /\ UNCHANGED <<args, headers, data, cond, ret, err>>

\* main: the title, an empty line and the report of display_aggregation.
ShowAggregate ==
    /\ pc = "show_aggregate"
    /\ out' = out \o <<"title", "blank", "report">>
    /\ pc' = "exit"
    /\ status' = "exit0"
    /\ steps' = Append(steps, "present")
    /\ UNCHANGED <<args, headers, data, cond, ret, err>>

---------------------------------------------------------------------------
(* Inputs *)

\* All sequences of at most n elements of S.
RECURSIVE SeqsUpTo(_, _)
\* The sequences of `shorter` and each of them with one more element of S.
Extend(shorter, S) == shorter \cup {Append(s, x) : s \in shorter, x \in S}

SeqsUpTo(S, n) == IF n = 0 THEN {<<>>} ELSE Extend(SeqsUpTo(S, n - 1), S)

\* The concatenation of a sequence of texts.
RECURSIVE Concat(_)
Concat(ts) == IF ts = <<>> THEN <<>> ELSE ts[1] \o Concat(Tail(ts))

\* The condition texts of the parser calls: every text made of at most
\* MaxTokens of these tokens.
Tokens == {<<"p">>, <<" ">>, <<"9">>, OpGT, OpLT, OpEQ, Avg}
ConditionTexts == {Concat(ts) : ts \in SeqsUpTo(Tokens, MaxTokens)}

\* The header record of the input files: two columns, n and p.
HeaderRecord == << <<"n">>, <<"p">> >>

\* The data records of the input files.  A record with one cell is a row
\* with a missing trailing cell, a record with three cells has one cell more
\* than there are field names, and the empty record is a blank line.
Records ==
    { << <<"a">>, <<"1", "0">> >>,
      << <<"b">>, <<"9">> >>,
      << <<"a">>, <<"1", ".", "0">> >>,
      << <<"b">>, <<"1">> >>,
      << <<"a">>, <<"n", "a", "n">> >>,
      << <<"b">>, <<>> >>,
      << <<"a">>, <<"-", "1">> >>,
      << <<"a">> >>,
      << <<"b">>, <<"9">>, <<"x">> >>,
      <<>> }

\* The input files: a missing one, an unreadable one, the empty file, and
\* the header record followed by at most MaxRows data records.
Files ==
    {[kind |-> "missing", records |-> <<>>],
     [kind |-> "unreadable", records |-> <<>>],
     [kind |-> "ok", records |-> <<>>]}
        \cup {[kind |-> "ok", records |-> <<HeaderRecord>> \o rs] :
                 rs \in SeqsUpTo(Records, MaxRows)}

\* The columns, operators, values and operations of the direct calls.
Columns == {<<"n">>, <<"p">>, <<"q">>}
Values ==
    {<<"9">>, <<"1", "0">>, <<"1">>, <<"n", "a", "n">>, <<>>, <<"a">>, <<"b">>,
     <<" ", "1">>}
Operations == {Avg, Min, Max, <<"x">>}

\* The --where and --aggregate arguments of the runs of main.
WhereArgs ==
    {NoneVal, <<>>,
     <<"p", ">", "9">>, <<"p", ">", "=", "9">>, <<"n", " ", "=", " ", "a">>,
     <<"q", "=", "1">>, <<"p">>, <<"=", "9">>}
AggregateArgs ==
    {NoneVal, <<>>,
     <<"p">> \o OpEQ \o Avg, <<"p", " ">> \o OpEQ \o <<" ">> \o Min,
     <<"n">> \o OpEQ \o Max, <<"q">> \o OpEQ \o Avg, <<"p">> \o OpEQ \o <<"x">>,
     <<"p">> \o Avg}

---------------------------------------------------------------------------
(* The run of main() *)

Start(p, a) ==
    /\ pc = p
    /\ args = a
    /\ headers = <<>>
    /\ data = <<>>
    /\ cond = <<>>
    /\ ret = <<>>
    /\ err = "none"
    /\ out = <<>>
    /\ status = "running"
    /\ steps = <<>>

Init ==
    \E f \in Files, w \in WhereArgs, a \in AggregateArgs :
        Start("flags", [file |-> f, where |-> w, aggregate |-> a])

Next ==
    \/ FlagCheck
    \/ LoadStep
    \/ ParseFilterStep
    \/ FilterStep
    \/ ShowFilter
    \/ ParseAggregateStep
    \/ AggregateStep
    \/ ShowAggregate

Spec == Init /\ [][Next]_vars

---------------------------------------------------------------------------
(* Direct calls of the processor's methods, as the tests make them: the     *)
(* processor is loaded, then filter_data or aggregate_data is called with   *)
(* arguments that no parser produced.                                       *)

InitCalls ==
    \E f \in Files :
        Start("load", [file |-> f, where |-> NoneVal, aggregate |-> NoneVal])

CallFilterData ==
    /\ pc = "parse"
    /\ \E column \in Columns, k \in 1..Len(operators), value \in Values :
           cond' = <<column, operators[k], value>>
    /\ pc' = "filter"
    /\ UNCHANGED <<args, headers, data, ret, err, out, status, steps>>

CallAggregateData ==
    /\ pc = "parse"
    /\ \E column \in Columns, operation \in Operations :
           cond' = <<column, operation>>
    /\ pc' = "aggregate"
    /\ UNCHANGED <<args, headers, data, ret, err, out, status, steps>>

NextCalls ==
    \/ LoadStep
    \/ CallFilterData
    \/ FilterStep
    \/ CallAggregateData
    \/ AggregateStep

SpecCalls == InitCalls /\ [][NextCalls]_vars

---------------------------------------------------------------------------
(* Direct calls of the two parsers, as the tests make them. *)

NoFile == [kind |-> "missing", records |-> <<>>]

InitParse ==
    \E t \in ConditionTexts :
        \/ Start("parse", [file |-> NoFile, where |-> t, aggregate |-> NoneVal])
        \/ Start("parse", [file |-> NoFile, where |-> NoneVal, aggregate |-> t])

CallParseFilter ==
    pc = "parse" /\ args.where # NoneVal /\ DoParseFilter(args.where)

CallParseAggregate ==
    pc = "parse" /\ args.aggregate # NoneVal /\ DoParseAggregate(args.aggregate)

NextParse == CallParseFilter \/ CallParseAggregate

SpecParse == InitParse /\ [][NextParse]_vars

---------------------------------------------------------------------------
(* Properties *)

\* The state is that after a call of filter_data (of aggregate_data) has
\* ended, by a return or by a failure.
FilterEnded == "filter" \in Range(steps)
AggregateEnded == "aggregate" \in Range(steps)
FilterReturned == pc = "show_filter"
AggregateReturned == pc = "show_aggregate"

\* The parser call has ended, by a return or by a failure.
ParseFilterEnded == "parse_filter" \in Range(steps)
ParseAggregateEnded == "parse_aggregate" \in Range(steps)

\* The rows of the table that the loop's test selects for the call.
Selected == {i \in 1..Len(data) : FilterRow(data[i][cond[1]], cond[2], cond[3]) = "append"}

ClaimedMatch(cell, operator, target) ==
    IF PyFloat(cell).exc = "none" /\ PyFloat(target).exc = "none"
    THEN CASE operator = OpGT -> FloatLess(PyFloat(target), PyFloat(cell))
           [] operator = OpLT -> FloatLess(PyFloat(cell), PyFloat(target))
           [] operator = OpEQ -> FloatEq(PyFloat(cell), PyFloat(target))
           [] OTHER -> FALSE
    ELSE CASE operator = OpGT -> StrLess(target, cell)
           [] operator = OpLT -> StrLess(cell, target)
           [] operator = OpEQ -> cell = target
           [] OTHER -> FALSE

\* C2: a row is in what filter_data returns exactly when the predicate, a
\* function of the row's cell, the operator and the target alone, holds:
\* numeric when both parse, lexicographic when either does not, and never
\* for '>=' and '<='.
C2_TypedPredicate ==
    FilterReturned =>
        /\ \A i \in 1..Len(data) :
               data[i] \in Range(ret) <=> ClaimedMatch(data[i][cond[1]], cond[2], cond[3])
        /\ cond[2] \notin {OpGT, OpLT, OpEQ} => ret = <<>>

\* C2 witness: p < 9 on a table with the cells "10" and "": the first is
\* compared as a number and left out ("10" < "9" as texts), the second is
\* compared as a text and returned.
C2_Witness ==
    /\ FilterReturned
    /\ cond = << <<"p">>, OpLT, <<"9">> >>
    /\ Len(data) = 2
    /\ data[1][<<"p">>] = <<"1", "0">>
    /\ data[2][<<"p">>] = <<>>
    /\ ret = <<data[2]>>

\* The priority list of the operators as the claim states it.
Priority == << <<">", "=">>, <<"<", "=">>, <<">">>, <<"<">>, <<"=">> >>

\* The first operator of the priority list that occurs in the text.
Chosen(text) == Priority[MinOf({k \in 1..Len(Priority) : Contains(Priority[k], text)})]

\* The text before and the text after the first occurrence of op.
Before(text, op) == Slice(text, 1, MinOf(Occurrences(op, text)) - 1)
After(text, op) == Slice(text, MinOf(Occurrences(op, text)) + Len(op), Len(text))

HasOperator(text) == \E k \in 1..Len(Priority) : Contains(Priority[k], text)

\* C3: for a text in which an operator occurs, parse_filter_condition
\* returns the trimmed text before the first occurrence of the first
\* operator of the priority list that occurs, that operator, and the
\* trimmed text after it.
C3_ParsePriority ==
    (ParseFilterEnded /\ HasOperator(args.where)) =>
        /\ pc = "filter"
        /\ err = "none"
        /\ cond = <<Strip(Before(args.where, Chosen(args.where))),
                    Chosen(args.where),
                    Strip(After(args.where, Chosen(args.where)))>>

\* C3 witness: "p>=9" is split at '>=', not at the '>' or the '=' in it.
C3_Witness ==
    /\ ParseFilterEnded
    /\ args.where = <<"p", ">", "=", "9">>
    /\ cond = << <<"p">>, <<">", "=">>, <<"9">> >>

\* C4: when a cell of the column does not parse as a number, aggregate_data
\* fails with NonNumericColumn and returns nothing.
C4_NonNumericAborts ==
    (AggregateEnded /\ cond[1] \in Range(headers)
                    /\ \E i \in 1..Len(data) : PyFloat(data[i][cond[1]]).exc # "none")
        => (pc = "exit" /\ err = "NonNumericColumn")

\* C5: filtering a column with '=' by the cell of a row returns that row.
C5_EqualReflexive ==
    (FilterReturned /\ cond[2] = OpEQ) =>
        \A i \in 1..Len(data) : data[i][cond[1]] = cond[3] => data[i] \in Range(ret)

\* C6: parse_filter_condition fails with InvalidConditionFormat for a text
\* without operator, and for a text whose column part or value part, around
\* the operator chosen, is empty.
C6_RejectsDegenerate ==
    (ParseFilterEnded /\ (~HasOperator(args.where)
                          \/ Strip(Before(args.where, Chosen(args.where))) = <<>>
                          \/ Strip(After(args.where, Chosen(args.where))) = <<>>))
        => (pc = "exit" /\ err = "InvalidConditionFormat")

\* A text with exactly one '=', both sides of which are non-empty once trimmed.
WellFormedAggregate(text) ==
    /\ Cardinality(Occurrences(<<"=">>, text)) = 1
    /\ Strip(Before(text, <<"=">>)) # <<>>
    /\ Strip(After(text, <<"=">>)) # <<>>

\* C7: parse_aggregate_condition returns a pair only for a text with exactly
\* one '=' and two non-empty sides; every other text fails with
\* InvalidConditionFormat.
C7_AggregateGrammar ==
    (ParseAggregateEnded /\ ~WellFormedAggregate(args.aggregate))
        => (pc = "exit" /\ err = "InvalidConditionFormat")

\* Every cell of the column of the call parses as a number.
AllNumeric == \A i \in 1..Len(data) : PyFloat(data[i][cond[1]]).exc = "none"

UnknownOperationCall ==
    AggregateEnded /\ cond[1] \in Range(headers) /\ cond[2] \notin {Avg, Min, Max}

\* C8, as stated: with an operation outside {avg, min, max} aggregate_data
\* fails with UnknownOperation whatever the column holds.
C8_UnknownOperationAlways ==
    UnknownOperationCall => (pc = "exit" /\ err = "UnknownOperation")

\* C8, amended: with an operation outside {avg, min, max} aggregate_data
\* always fails; it fails with UnknownOperation when the table has a row
\* and every cell of the column parses as a number, and otherwise with the
\* failure of the check that comes first: EmptyColumn for a table without
\* rows, and else that of the first cell float() rejects.
C8_UnknownOperationLast ==
    UnknownOperationCall =>
        /\ pc = "exit"
        /\ err = IF data = <<>> THEN "EmptyColumn"
                 ELSE IF AllNumeric THEN "UnknownOperation"
                 ELSE IF PyFloat(data[MinOf({i \in 1..Len(data) :
                             PyFloat(data[i][cond[1]]).exc # "none"})][cond[1]]).exc
                         = "ValueError"
                 THEN "NonNumericColumn" ELSE "TypeError"

\* C8 witness: the operation "x" on the numeric cells "10" and "9" of p.
C8_Witness ==
    /\ UnknownOperationCall
    /\ Len(data) = 2
    /\ data[1][<<"p">>] = <<"1", "0">>
    /\ data[2][<<"p">>] = <<"9">>
    /\ cond = << <<"p">>, <<"x">> >>
    /\ err = "UnknownOperation"

\* The steps of a run of main that filters, and of one that aggregates.
FilterRun == <<"flags", "load", "parse_filter", "filter", "present">>
AggregateRun == <<"flags", "load", "parse_aggregate", "aggregate", "present">>

IsPrefix(s, t) == Len(s) <= Len(t) /\ \A i \in 1..Len(s) : s[i] = t[i]

\* The steps at which a failure of the given kind occurs.
FailingSteps(kind) ==
    CASE kind \in {"BothFlags", "NoFlag"} -> {"flags"}
      [] kind \in {"FileNotFound", "IOError"} -> {"load"}
      [] kind = "InvalidConditionFormat" -> {"parse_filter", "parse_aggregate"}
      [] kind = "UnknownOperation" -> {"parse_aggregate", "aggregate"}
      [] kind \in {"UnknownColumn", "TypeError"} -> {"filter", "aggregate"}
      [] kind \in {"NonNumericColumn", "EmptyColumn"} -> {"aggregate"}

\* C9: the steps of main run in the order flag check, load, one of filter
\* and aggregate (each after its parser), presentation; with both flags or
\* none nothing runs after the flag check; a failure ends the process with
\* a non-zero status at the step that failed, no step runs after it, and
\* nothing but the message of the failure has been printed; results are
\* printed only by a run that ends with status 0.
C9_PipelineOrder ==
    /\ IsPrefix(steps, FilterRun) \/ IsPrefix(steps, AggregateRun)
    /\ (Truthy(args.where) = Truthy(args.aggregate) /\ pc # "flags")
           => (err \in {"BothFlags", "NoFlag"} /\ steps = <<"flags">>)
    /\ err # "none" =>
           /\ pc = "exit"
           /\ status = "exit1"
           /\ steps[Len(steps)] \in FailingSteps(err)
           /\ out \in {<<>>, <<"error">>}
    /\ (err = "none" /\ pc # "exit") => (status = "running" /\ out = <<>>)
    /\ (err = "none" /\ pc = "exit") =>
           /\ status = "exit0"
           /\ steps \in {FilterRun, AggregateRun}
           /\ out # <<>>

\* C9 witness: a run that passed the flag check, loaded, parsed and failed
\* in filter_data on an unknown column, with only the message printed.
C9_Witness ==
    /\ steps = <<"flags", "load", "parse_filter", "filter">>
    /\ err = "UnknownColumn"
    /\ status = "exit1"
    /\ out = <<"error">>

\* The table with every missing cell replaced by the empty string.
Blanked(rows) ==
    [i \in 1..Len(rows) |->
        [h \in DOMAIN rows[i] |->
            IF h # NoneVal /\ rows[i][h] = NoneVal THEN <<>> ELSE rows[i][h]]]

MissingCell == cond[1] \in Range(headers) /\ \E i \in 1..Len(data) : data[i][cond[1]] = NoneVal

\* C10: on a column in which a row has no cell, filter_data returns, and the
\* row is selected as if its cell were the empty string, and aggregate_data
\* fails with NonNumericColumn.
C10_MissingCellIsEmpty ==
    /\ (FilterEnded /\ MissingCell) =>
           /\ pc = "show_filter"
           /\ \A i \in 1..Len(data) :
                  data[i] \in Range(ret) <=>
                      FilterRow(Blanked(data)[i][cond[1]], cond[2], cond[3]) = "append"
    /\ (AggregateEnded /\ MissingCell) => (pc = "exit" /\ err = "NonNumericColumn")

====
